---- MODULE Spec2Model ----
(***************************************************************************)
(* Conditioning encoders of ldm_seg/modules/encoders/modules.py.           *)
(*                                                                         *)
(* One encoder object is modelled at a time.  `obj` is the object (a       *)
(* record of its attributes, kind = "none" before any constructor has      *)
(* returned), `op` and `arg` are the last method called and its inputs,    *)
(* `ret` is what that call returned or raised and `out` what it printed.   *)
(* Tensors are modelled by their shape and, where the code decides the     *)
(* content (token ids, timestep vectors, replicated embeddings), by their  *)
(* content.  Python's None is the empty sequence, Some(x) is <<x>>.        *)
(***************************************************************************)
EXTENDS Integers, Sequences, FiniteSets, TLC

VARIABLES obj, op, arg, ret, out

vars == <<obj, op, arg, ret, out>>

(***************************** bounds **************************************)
\* largest batch size B
MaxBatch == 2
\* longest input text, in sub-word tokens
MaxTextLen == 2
\* largest max_length / max_seq_len a constructor is given
MaxLength == 3
\* largest embedding width D
MaxEmbed == 2
\* largest n_stages of a SpatialRescaler
MaxStages == 2
\* largest height and width of an image
MaxSize == 5
\* largest n_repeat of a FrozenCLIPTextEmbedder
MaxRepeat == 2
\* context length of the CLIP text tower, in tokens (scaled down from 77)
ContextLength == 3
\* largest diffusion timestep
MaxT == 2

(*************************** constants *************************************)
\* side of the square the image embedder resizes to
ImageSize == 224

(************************** Python values **********************************)
None == <<>>

Some(x) == <<x>>

IsNone(o) == o = <<>>

Get(o) == o[1]

Ok(v) == [ok |-> TRUE, val |-> v, err |-> ""]

Raise(e) == [ok |-> FALSE, val |-> <<>>, err |-> e]

\* no object is bound: no constructor has returned
NoObject == [kind |-> "none"]

\* what a method call leaves behind: the object, the result, the printed lines
Eff(self, r, printed) == [self |-> self, ret |-> r, out |-> printed]

Min(a, b) == IF a <= b THEN a ELSE b

Devices == {"cuda", "cpu"}

\* A text is the sequence of its sub-word ids; the tokenizers' own algorithms are
\* external, so the word at position i simply has id i.
TextOfLen(n) == [i \in 1..n |-> i]

\* a batch of b strings: the first has n words, each next one s words more
\* (wrapping at MaxTextLen), so a batch mixes short and long strings
TextBatch(b, n, s) == [i \in 1..b |-> TextOfLen((n + s * (i - 1)) % (MaxTextLen + 1))]

TextBatches == {TextBatch(b, n, s) : b \in 1..MaxBatch, n \in 0..MaxTextLen, s \in {0, 1}}

\* an integer tensor of shape (B, L): every row has the same length
IsTensor2(rows) == \A i \in 1..Len(rows) : Len(rows[i]) = Len(rows[1])

TokenTensors == {x \in TextBatches : IsTensor2(x)}

(************************* nn.Module state *********************************)
\* a freshly constructed torch module: training mode, trainable parameters
NewModule(names) == [training |-> TRUE, requires_grad |-> [p \in names |-> TRUE]]

\* nn.Module.eval() of the wrapped module
Eval(m) == [m EXCEPT !.training = FALSE]

\* for param in self.parameters(): param.requires_grad = False
NoGrad(m) == [m EXCEPT !.requires_grad = [p \in DOMAIN m.requires_grad |-> FALSE]]

TransformerParams == {"token_emb.weight", "attn_layers.weight"}

(*********************** x_transformer.TransformerWrapper ******************)
\* TransformerWrapper(num_tokens, max_seq_len, attn_layers=Encoder(dim, depth))
NewTransformerWrapper(max_seq_len, dim) ==
    [max_seq_len |-> max_seq_len, dim |-> dim] @@ NewModule(TransformerParams)

\* transformer(tokens, return_embeddings=True): (B, L) -> (B, L, D); a sequence
\* longer than max_seq_len has no positional embedding
TransformerWrapper(tr, rows) ==
    IF Len(rows[1]) > tr.max_seq_len
    THEN Raise("max_seq_len exceeded")
    ELSE Ok([shape |-> <<Len(rows), Len(rows[1]), tr.dim>>])

(*********************** TransformerEmbedder *******************************)
TransformerEmbedder_init(n_embed, max_seq_len, device) ==
    [kind |-> "TransformerEmbedder", training |-> TRUE, device |-> device,
     transformer |-> NewTransformerWrapper(max_seq_len, n_embed)]

TransformerEmbedder_forward(self, tokens) ==
    Eff(self, TransformerWrapper(self.transformer, tokens), <<>>)

TransformerEmbedder_encode(self, x) == TransformerEmbedder_forward(self, x)

(*********************** BERTTokenizer *************************************)
\* the Hugging Face tokenizer call of forward: truncation=True,
\* max_length=max_length, padding="max_length", return_tensors="pt"
HFRow(text, max_length, pre, post, pad) ==
    LET cap  == max_length - Len(pre) - Len(post)
        body == SubSeq(text, 1, Min(Len(text), cap))
        row  == pre \o body \o post
    IN  row \o [i \in 1..(max_length - Len(row)) |-> pad]

HFTokenize(text, max_length, pre, post, pad) ==
    [b \in 1..Len(text) |-> HFRow(text[b], max_length, pre, post, pad)]

\* [CLS], [SEP] and [PAD] of bert-base-uncased
BertPre == <<101>>

BertPost == <<102>>

BertPad == 0

\* the shortest max_length that holds the special tokens
MinLength == Len(BertPre) + Len(BertPost)

Lengths == MinLength..MaxLength

BERTTokenizer_init(device, vq_interface, max_length) ==
    [kind |-> "BERTTokenizer", training |-> TRUE, device |-> device,
     vq_interface |-> vq_interface, max_length |-> max_length]

\* padding="longest": rows are padded to the longest row of the batch only
BERTTokenizer_forward_longest(self, text) ==
    LET full == HFTokenize(text, self.max_length, BertPre, BertPost, BertPad)
        used(b) == Min(self.max_length, Len(text[b]) + MinLength)
        longest == CHOOSE n \in {used(b) : b \in 1..Len(text)} :
                       \A b \in 1..Len(text) : used(b) <= n
    IN  [data |-> [b \in 1..Len(text) |-> SubSeq(full[b], 1, longest)],
         device |-> self.device]

BERTTokenizer_forward(self, text) ==
    [data |-> HFTokenize(text, self.max_length, BertPre, BertPost, BertPad),
     device |-> self.device]

\* returns the tokens when vq_interface is set, the tuple otherwise
BERTTokenizer_encode_swapped(self, text) ==
    LET tokens == BERTTokenizer_forward(self, text)
    IN  IF self.vq_interface
        THEN Eff(self, Ok([tuple |-> FALSE, tokens |-> tokens]), <<>>)
        ELSE Eff(self, Ok([tuple |-> TRUE,
                           items |-> <<None, None, <<None, None, Some(tokens)>>>>]), <<>>)

BERTTokenizer_encode(self, text) ==
    LET tokens == BERTTokenizer_forward(self, text)
    IN  IF ~self.vq_interface
        THEN Eff(self, Ok([tuple |-> FALSE, tokens |-> tokens]), <<>>)
        ELSE Eff(self, Ok([tuple |-> TRUE,
                           items |-> <<None, None, <<None, None, Some(tokens)>>>>]), <<>>)

BERTTokenizer_decode(self, text) == Eff(self, Ok(text), <<>>)

(*********************** BERTEmbedder **************************************)
BERTEmbedder_init(n_embed, max_seq_len, device, use_tokenizer) ==
    [kind |-> "BERTEmbedder", training |-> TRUE, device |-> device,
     use_tknz_fn |-> use_tokenizer,
     tknz_fn |-> IF use_tokenizer
                 THEN Some(BERTTokenizer_init("cuda", FALSE, max_seq_len))
                 ELSE None,
     transformer |-> NewTransformerWrapper(max_seq_len, n_embed)]

BERTEmbedder_forward(self, text) ==
    LET tokens == IF self.use_tknz_fn
                  THEN BERTTokenizer_forward(Get(self.tknz_fn), text).data
                  ELSE text
    IN  Eff(self, TransformerWrapper(self.transformer, tokens), <<>>)

BERTEmbedder_encode(self, text) == BERTEmbedder_forward(self, text)

(*********************** SpatialRescaler ***********************************)
Methods == {"nearest", "linear", "bilinear", "trilinear", "bicubic", "area"}

\* scale factors as fractions <<numerator, denominator>>: 0.5 (the default) and 2
Multipliers == {<<1, 2>>, <<2, 1>>}

\* channel counts: 3 is the default in_channels
Channels == {1, 3}

StageCounts == 0..MaxStages

\* image batches (B, C, H, W): square ones, and ones of height h and width
\* MaxSize + 1 - h
Images ==
    UNION {{<<b, c, h, h>>, <<b, c, h, MaxSize + 1 - h>>} :
           b \in 1..MaxBatch, c \in Channels, h \in 1..MaxSize}

\* torch.nn.functional.interpolate(x, scale_factor=m, mode=method) on a 4-D
\* input: each spatial size s becomes floor(s * m).  "linear" and "trilinear"
\* take 3-D and 5-D inputs only.  An output size of 0 is refused, except that
\* mode "area" (adaptive average pooling) may hand back an empty tensor,
\* depending on the torch build; an empty input is always refused.
Interpolate(x, method, m) ==
    LET h == (x[3] * m[1]) \div m[2]
        w == (x[4] * m[1]) \div m[2]
    IN  IF method \in {"linear", "trilinear"}
        THEN {Raise("NotImplementedError")}
        ELSE IF x[3] = 0 \/ x[4] = 0
        THEN {Raise("RuntimeError")}
        ELSE IF h = 0 \/ w = 0
        THEN {Raise("RuntimeError")} \cup
             (IF method = "area" THEN {Ok(<<x[1], x[2], h, w>>)} ELSE {})
        ELSE {Ok(<<x[1], x[2], h, w>>)}

\* nn.Conv2d(in_channels, out_channels, 1, bias=bias) applied to x
Conv2d(conv, x) ==
    IF x[2] # conv.in_channels
    THEN Raise("RuntimeError")
    ELSE Ok(<<x[1], conv.out_channels, x[3], x[4]>>)

SpatialRescaler_init(n_stages, method, multiplier, in_channels, out_channels, bias) ==
    LET self == [kind |-> "SpatialRescaler", training |-> TRUE, n_stages |-> n_stages,
                 multiplier |-> multiplier, interpolator |-> method,
                 remap_output |-> ~IsNone(out_channels),
                 channel_mapper |-> None]
    IN  IF ~IsNone(out_channels)
        THEN Eff([self EXCEPT !.channel_mapper =
                      Some([in_channels |-> in_channels, out_channels |-> Get(out_channels),
                            bias |-> bias]
                           @@ NewModule(IF bias THEN {"weight", "bias"} ELSE {"weight"}))],
                 Ok(<<>>), <<"Spatial Rescaler mapping">>)
        ELSE Eff(self, Ok(<<>>), <<>>)

\* for stage in range(n): x = self.interpolator(x, scale_factor=self.multiplier)
RECURSIVE SpatialRescaler_stages(_, _, _)
SpatialRescaler_stages(self, n, x) ==
    IF n = 0
    THEN {Ok(x)}
    ELSE UNION {IF r.ok THEN Interpolate(r.val, self.interpolator, self.multiplier) ELSE {r} :
                r \in SpatialRescaler_stages(self, n - 1, x)}

\* the set of outcomes of forward(x)
SpatialRescaler_forward_extra(self, x) ==
    {Eff(self,
         IF r.ok /\ self.remap_output THEN Conv2d(Get(self.channel_mapper), r.val) ELSE r,
         <<>>) : r \in SpatialRescaler_stages(self, self.n_stages + 1, x)}

SpatialRescaler_forward(self, x) ==
    {Eff(self,
         IF r.ok /\ self.remap_output THEN Conv2d(Get(self.channel_mapper), r.val) ELSE r,
         <<>>) : r \in SpatialRescaler_stages(self, self.n_stages, x)}

SpatialRescaler_encode(self, x) == SpatialRescaler_forward(self, x)

(*********************** pretrained models *********************************)
\* CLIPTextModel.from_pretrained / T5EncoderModel.from_pretrained: a module of
\* hidden width dim, handed back in evaluation mode with trainable parameters
FromPretrained(dim) ==
    [dim |-> dim, training |-> FALSE,
     requires_grad |-> [p \in {"embeddings.weight", "encoder.weight"} |-> TRUE]]

\* clip.load(version, jit=False): the joint model, in evaluation mode, with
\* trainable parameters
ClipLoad(dim) ==
    [dim |-> dim, training |-> FALSE,
     requires_grad |-> [p \in {"visual.weight", "transformer.weight"} |-> TRUE]]

\* every parameter of the wrapped module is non-trainable
AllFrozen(m) == \A p \in DOMAIN m.requires_grad : ~m.requires_grad[p]

(*********************** FrozenCLIPEmbedder ********************************)
\* startoftext / endoftext of the CLIP vocabulary; endoftext is also the pad token
ClipPre == <<49406>>

ClipPost == <<49407>>

ClipPad == 49407

\* param.requires_grad = not param.requires_grad
FrozenCLIPEmbedder_freeze_toggle(self) ==
    [self EXCEPT !.transformer =
        [Eval(@) EXCEPT !.requires_grad = [p \in DOMAIN @ |-> ~@[p]]]]

FrozenCLIPEmbedder_freeze(self) ==
    [self EXCEPT !.transformer = NoGrad(Eval(@))]

\* the constructor without its last line
FrozenCLIPEmbedder_init_nofreeze(dim, device, max_length) ==
    [kind |-> "FrozenCLIPEmbedder", training |-> TRUE,
     transformer |-> FromPretrained(dim), device |-> device, max_length |-> max_length]

FrozenCLIPEmbedder_init(dim, device, max_length) ==
    FrozenCLIPEmbedder_freeze(
        [kind |-> "FrozenCLIPEmbedder", training |-> TRUE,
         transformer |-> FromPretrained(dim), device |-> device, max_length |-> max_length])

\* forward sets the module back into training mode
FrozenCLIPEmbedder_forward_train(self, text) ==
    LET tokens == HFTokenize(text, self.max_length, ClipPre, ClipPost, ClipPad)
    IN  Eff([self EXCEPT !.transformer.training = TRUE],
            Ok([shape |-> <<Len(tokens), Len(tokens[1]), self.transformer.dim>>]), <<>>)

FrozenCLIPEmbedder_forward(self, text) ==
    LET tokens == HFTokenize(text, self.max_length, ClipPre, ClipPost, ClipPad)
    IN  Eff(self, Ok([shape |-> <<Len(tokens), Len(tokens[1]), self.transformer.dim>>]), <<>>)

FrozenCLIPEmbedder_encode(self, text) == FrozenCLIPEmbedder_forward(self, text)

(*********************** FrozenT5Embedder **********************************)
\* </s> of the T5 vocabulary
T5Post == <<1>>

FrozenT5Embedder_freeze(self) ==
    [self EXCEPT !.transformer = NoGrad(Eval(@))]

FrozenT5Embedder_init(dim, device, max_length) ==
    FrozenT5Embedder_freeze(
        [kind |-> "FrozenT5Embedder", training |-> TRUE,
         transformer |-> FromPretrained(dim), device |-> device, max_length |-> max_length])

\* self.tokenizer(text, return_tensors="pt"): no truncation and no padding, so
\* rows of different lengths cannot be made a tensor
FrozenT5Embedder_forward(self, text) ==
    LET tokens == [b \in 1..Len(text) |-> text[b] \o T5Post]
    IN  IF ~IsTensor2(tokens)
        THEN Eff(self, Raise("ValueError"), <<>>)
        ELSE Eff(self, Ok([shape |-> <<Len(tokens), Len(tokens[1]), self.transformer.dim>>]),
                 <<>>)

FrozenT5Embedder_encode(self, text) == FrozenT5Embedder_forward(self, text)

(*********************** FrozenCLIPTextEmbedder ****************************)
RECURSIVE GCD(_, _)
GCD(a, b) == IF b = 0 THEN a ELSE GCD(b, a % b)

\* the fraction n / d in lowest terms
Frac(n, d) ==
    LET g == GCD(IF n < 0 THEN -n ELSE n, d)
    IN  <<n \div g, d \div g>>

RECURSIVE SumSq(_)
SumSq(v) == IF v = <<>> THEN 0 ELSE v[1] * v[1] + SumSq(Tail(v))

\* torch.linalg.norm of a vector whose norm is a whole number
Norm(v) == CHOOSE r \in 0..SumSq(v) : r * r = SumSq(v)

\* clip.tokenize(text): startoftext, the words, endoftext, zero padding up to the
\* context length; a longer text is refused
ClipTokenize(text) ==
    LET rows == [b \in 1..Len(text) |-> ClipPre \o text[b] \o ClipPost]
    IN  IF \E b \in 1..Len(rows) : Len(rows[b]) > ContextLength
        THEN Raise("RuntimeError")
        ELSE Ok([b \in 1..Len(rows) |->
                    rows[b] \o [i \in 1..(ContextLength - Len(rows[b])) |-> 0]])

\* model.encode_text(tokens): one pooled vector of width dim for each row, a
\* function of the row (here of its number k of tokens); fractions over 1
EncodeText(model, tokens) ==
    [b \in 1..Len(tokens) |->
        LET k == Cardinality({i \in 1..Len(tokens[b]) : tokens[b][i] # 0})
        IN  [d \in 1..model.dim |->
                IF model.dim = 1 THEN <<5 * k, 1>>
                ELSE IF d = 1 THEN <<(3 + (k % 2)) * k, 1>>
                ELSE IF d = 2 THEN <<(4 - (k % 2)) * k, 1>>
                ELSE <<0, 1>>]]

\* z / torch.linalg.norm(z, dim=1, keepdim=True)
Normalize(z) ==
    [b \in 1..Len(z) |->
        LET n == Norm([d \in 1..Len(z[b]) |-> z[b][d][1]])
        IN  [d \in 1..Len(z[b]) |-> Frac(z[b][d][1], n)]]

FrozenCLIPTextEmbedder_init(dim, device, max_length, n_repeat, normalize) ==
    [kind |-> "FrozenCLIPTextEmbedder", training |-> TRUE, model |-> ClipLoad(dim),
     device |-> device, max_length |-> max_length, n_repeat |-> n_repeat,
     normalize |-> normalize]

FrozenCLIPTextEmbedder_freeze(self) ==
    [self EXCEPT !.model = NoGrad(Eval(@))]

FrozenCLIPTextEmbedder_forward(self, text) ==
    LET tokens == ClipTokenize(text)
        z == EncodeText(self.model, tokens.val)
    IN  IF ~tokens.ok THEN tokens
        ELSE IF self.normalize THEN Ok(Normalize(z))
        ELSE Ok(z)

\* repeat(z, "b 1 d -> b k d", k=self.n_repeat + 1)
FrozenCLIPTextEmbedder_encode_more(self, text) ==
    LET z == FrozenCLIPTextEmbedder_forward(self, text)
    IN  IF ~z.ok THEN Eff(self, z, <<>>)
        ELSE Eff(self,
                 Ok([b \in 1..Len(z.val) |-> [k \in 1..(self.n_repeat + 1) |-> z.val[b]]]),
                 <<>>)

\* z[:, None, :] puts one copy of each pooled vector on a new middle axis and
\* repeat replicates it n_repeat times
FrozenCLIPTextEmbedder_encode(self, text) ==
    LET z == FrozenCLIPTextEmbedder_forward(self, text)
    IN  IF ~z.ok THEN Eff(self, z, <<>>)
        ELSE Eff(self,
                 Ok([b \in 1..Len(z.val) |-> [k \in 1..self.n_repeat |-> z.val[b]]]),
                 <<>>)

(*********************** FrozenClipImageEmbedder ***************************)
FrozenClipImageEmbedder_init(dim, antialias) ==
    [kind |-> "FrozenClipImageEmbedder", training |-> TRUE, model |-> ClipLoad(dim),
     antialias |-> antialias,
     mean |-> <<48145466, 45782750, 40821073>>,
     std |-> <<26862954, 26130258, 27577711>>]

\* resize to ImageSize x ImageSize, map [-1,1] to [0,1], normalize with the
\* three-channel mean and std
FrozenClipImageEmbedder_preprocess(self, x) ==
    IF x[2] # Len(self.mean)
    THEN Raise("ValueError")
    ELSE Ok(<<x[1], x[2], ImageSize, ImageSize>>)

FrozenClipImageEmbedder_forward(self, x) ==
    LET p == FrozenClipImageEmbedder_preprocess(self, x)
    IN  IF ~p.ok THEN Eff(self, p, <<>>)
        ELSE Eff(self, Ok([shape |-> <<p.val[1], self.model.dim>>]), <<>>)

(*********************** FrozenSDUNet **************************************)
\* the sub-modules of the diffusion model and the parameter each one owns
Owner ==
    [p \in {"model.diffusion_model.weight", "first_stage_model.weight",
            "cond_stage_model.weight"} |->
        IF p = "model.diffusion_model.weight" THEN "model"
        ELSE IF p = "first_stage_model.weight" THEN "first_stage_model"
        ELSE "cond_stage_model"]

ModelKeys == DOMAIN Owner

\* keys a checkpoint's state dict may hold: the model's and one it does not know
CkptKeys == ModelKeys \cup {"model_ema.decay"}

\* what torch.load may find at ckpt_path
Checkpoints ==
    {[file |-> FALSE, global_step |-> FALSE, state_dict |-> None]} \cup
    {[file |-> TRUE, global_step |-> g, state_dict |-> sd] :
        g \in BOOLEAN, sd \in {None} \cup {Some(k) : k \in SUBSET CkptKeys}}

\* instantiate_from_config(config.model): a new module with its three sub-modules
InstantiateFromConfig ==
    [children |-> {Owner[p] : p \in ModelKeys}] @@ NewModule(ModelKeys)

\* a printed line, and a printed list of keys
Line(text) == [text |-> text, keys |-> {}]

Keys(k) == [text |-> "", keys |-> k]

\* the key report is printed whatever verbose says
FrozenSDUNet_load_model_from_config_loud(self, ckpt, verbose) ==
    LET p1 == <<Line("Loading model from")>>
        p2 == IF ckpt.global_step THEN p1 \o <<Line("Global Step")>> ELSE p1
        sd == Get(ckpt.state_dict)
        m  == ModelKeys \ sd
        u  == sd \ ModelKeys
        p3 == IF m # {} THEN p2 \o <<Line("missing keys:"), Keys(m)>> ELSE p2
        p4 == IF u # {} THEN p3 \o <<Line("unexpected keys:"), Keys(u)>> ELSE p3
    IN  IF ~ckpt.file THEN Eff(self, Raise("FileNotFoundError"), p1)
        ELSE IF IsNone(ckpt.state_dict) THEN Eff(self, Raise("KeyError"), p2)
        ELSE Eff(self, Ok(InstantiateFromConfig), p4)

\* ckpt is what the file at self.ckpt_path holds
FrozenSDUNet_load_model_from_config(self, ckpt, verbose) ==
    LET p1 == <<Line("Loading model from")>>
        p2 == IF ckpt.global_step THEN p1 \o <<Line("Global Step")>> ELSE p1
        sd == Get(ckpt.state_dict)
        m  == ModelKeys \ sd
        u  == sd \ ModelKeys
        p3 == IF m # {} /\ verbose THEN p2 \o <<Line("missing keys:"), Keys(m)>> ELSE p2
        p4 == IF u # {} /\ verbose THEN p3 \o <<Line("unexpected keys:"), Keys(u)>> ELSE p3
    IN  IF ~ckpt.file THEN Eff(self, Raise("FileNotFoundError"), p1)
        ELSE IF IsNone(ckpt.state_dict) THEN Eff(self, Raise("KeyError"), p2)
        ELSE Eff(self, Ok(InstantiateFromConfig), p4)

\* del model.<name> for each name: the sub-module and its parameters are gone
DelChildren(model, names) ==
    [model EXCEPT !.children = model.children \ names,
                  !.requires_grad = [p \in {q \in DOMAIN model.requires_grad :
                                               Owner[q] \notin names} |->
                                        model.requires_grad[p]]]

FrozenSDUNet_freeze(self) ==
    [self EXCEPT !.model = NoGrad(Eval(@))]

\* config is the path given (None by default), ckpt what the file at path holds
FrozenSDUNet_init(config, timesteps, ckpt) ==
    LET self == [kind |-> "FrozenSDUNet", training |-> TRUE, config |-> config,
                 ckpt_path |-> "path", timesteps |-> timesteps]
        ld   == FrozenSDUNet_load_model_from_config(self, ckpt, FALSE)
    IN  IF IsNone(config) THEN Eff(NoObject, Raise("FileNotFoundError"), <<>>)
        ELSE IF ~ld.ret.ok THEN Eff(NoObject, ld.ret, ld.out)
        ELSE Eff(FrozenSDUNet_freeze(
                     self @@ [model |-> DelChildren(ld.ret.val,
                                          {"first_stage_model", "cond_stage_model"})]),
                 Ok(<<>>), ld.out)

\* torch.randint(low, high, (n,)): the vectors it may draw, none if low >= high
RandInt(low, high, n) == [1..n -> low..(high - 1)]

\* noise, q_sample(x_start=z, t=t, noise=noise), apply_model(z_noisy, t, c): the
\* timestep vector each of the two calls is given
Denoise(tq, ta) == [q_sample |-> tq, apply_model |-> ta]

\* "if not timestep": a timestep of 0 is taken for no timestep
FrozenSDUNet_forward_falsy(self, z, c, timestep) ==
    LET ts == Get(self.timesteps)
    IN  IF IsNone(timestep) \/ timestep = Some(0)
        THEN IF IsNone(self.timesteps) THEN {Eff(self, Raise("TypeError"), <<>>)}
             ELSE IF ts = <<>> THEN {Eff(self, Raise("IndexError"), <<>>)}
             ELSE IF ts[1] >= ts[Len(ts)] THEN {Eff(self, Raise("RuntimeError"), <<>>)}
             ELSE {Eff(self, Ok(Denoise(t, t)), <<>>) : t \in RandInt(ts[1], ts[Len(ts)], z)}
        ELSE {Eff(self, Ok(Denoise(t, t)), <<>>) :
                 t \in RandInt(Get(timestep), Get(timestep) + 1, z)}

\* the last configured timestep is drawn too
FrozenSDUNet_forward_closed(self, z, c, timestep) ==
    LET ts == Get(self.timesteps)
    IN  IF IsNone(timestep)
        THEN IF IsNone(self.timesteps) THEN {Eff(self, Raise("TypeError"), <<>>)}
             ELSE IF ts = <<>> THEN {Eff(self, Raise("IndexError"), <<>>)}
             ELSE IF ts[1] >= ts[Len(ts)] + 1 THEN {Eff(self, Raise("RuntimeError"), <<>>)}
             ELSE {Eff(self, Ok(Denoise(t, t)), <<>>) :
                      t \in RandInt(ts[1], ts[Len(ts)] + 1, z)}
        ELSE {Eff(self, Ok(Denoise(t, t)), <<>>) :
                 t \in RandInt(Get(timestep), Get(timestep) + 1, z)}

\* the outcomes of forward on a latent batch of z elements; ema_scope swaps the
\* averaged weights in and back out and leaves the object as it was
FrozenSDUNet_forward(self, z, c, timestep) ==
    LET ts == Get(self.timesteps)
    IN  IF IsNone(timestep)
        THEN IF IsNone(self.timesteps) THEN {Eff(self, Raise("TypeError"), <<>>)}
             ELSE IF ts = <<>> THEN {Eff(self, Raise("IndexError"), <<>>)}
             ELSE IF ts[1] >= ts[Len(ts)] THEN {Eff(self, Raise("RuntimeError"), <<>>)}
             ELSE {Eff(self, Ok(Denoise(t, t)), <<>>) : t \in RandInt(ts[1], ts[Len(ts)], z)}
        ELSE {Eff(self, Ok(Denoise(t, t)), <<>>) :
                 t \in RandInt(Get(timestep), Get(timestep) + 1, z)}

FrozenSDUNet_encode(self, z, c, timestep) == FrozenSDUNet_forward(self, z, c, timestep)

\* the timesteps a constructor is given: None, or a list of up to two steps
TimestepLists ==
    {None} \cup {Some(l) : l \in UNION {[1..n -> 0..MaxT] : n \in 0..2}}

(*************************** the state machine *****************************)
Init ==
    /\ obj = NoObject
    /\ op = "none"
    /\ arg = <<>>
    /\ ret = Ok(<<>>)
    /\ out = <<>>

\* a constructor that returned: the new object is bound
Constructed(name, a, self, printed) ==
    /\ obj' = self
    /\ op' = name
    /\ arg' = a
    /\ ret' = Ok(<<>>)
    /\ out' = printed

\* a method call on the object
Called(name, a, eff) ==
    /\ obj' = eff.self
    /\ op' = name
    /\ arg' = a
    /\ ret' = eff.ret
    /\ out' = eff.out

NewTransformerEmbedder ==
    /\ obj.kind = "none"
    /\ \E n_embed \in 1..MaxEmbed, max_seq_len \in Lengths, device \in Devices :
        Constructed("TransformerEmbedder.__init__", <<>>,
                    TransformerEmbedder_init(n_embed, max_seq_len, device), <<>>)

EncodeTransformerEmbedder ==
    /\ obj.kind = "TransformerEmbedder"
    /\ \E x \in TokenTensors :
        Called("TransformerEmbedder.encode", [x |-> x], TransformerEmbedder_encode(obj, x))

NewBERTTokenizer ==
    /\ obj.kind = "none"
    /\ \E device \in Devices, vq_interface \in BOOLEAN, max_length \in Lengths :
        Constructed("BERTTokenizer.__init__", <<>>,
                    BERTTokenizer_init(device, vq_interface, max_length), <<>>)

EncodeBERTTokenizer ==
    /\ obj.kind = "BERTTokenizer"
    /\ \E text \in TextBatches :
        Called("BERTTokenizer.encode", [text |-> text], BERTTokenizer_encode(obj, text))

DecodeBERTTokenizer ==
    /\ obj.kind = "BERTTokenizer"
    /\ \E text \in TextBatches :
        Called("BERTTokenizer.decode", [text |-> text], BERTTokenizer_decode(obj, text))

NewBERTEmbedder ==
    /\ obj.kind = "none"
    /\ \E n_embed \in 1..MaxEmbed, max_seq_len \in Lengths, device \in Devices,
          use_tokenizer \in BOOLEAN :
        Constructed("BERTEmbedder.__init__", <<>>,
                    BERTEmbedder_init(n_embed, max_seq_len, device, use_tokenizer), <<>>)

EncodeBERTEmbedder ==
    /\ obj.kind = "BERTEmbedder"
    /\ \E text \in (IF obj.use_tknz_fn THEN TextBatches ELSE TokenTensors) :
        Called("BERTEmbedder.encode", [text |-> text], BERTEmbedder_encode(obj, text))

NewSpatialRescaler ==
    /\ obj.kind = "none"
    /\ \E n_stages \in StageCounts, method \in Methods, multiplier \in Multipliers,
          in_channels \in Channels, out_channels \in {None} \cup {Some(c) : c \in Channels},
          bias \in BOOLEAN :
        Called("SpatialRescaler.__init__", <<>>,
               SpatialRescaler_init(n_stages, method, multiplier, in_channels,
                                    out_channels, bias))

EncodeSpatialRescaler ==
    /\ obj.kind = "SpatialRescaler"
    /\ \E x \in Images : \E e \in SpatialRescaler_encode(obj, x) :
        Called("SpatialRescaler.encode", [x |-> x], e)

NewFrozenCLIPEmbedder ==
    /\ obj.kind = "none"
    /\ \E dim \in 1..MaxEmbed, device \in Devices, max_length \in Lengths :
        Constructed("FrozenCLIPEmbedder.__init__", <<>>,
                    FrozenCLIPEmbedder_init(dim, device, max_length), <<>>)

FreezeFrozenCLIPEmbedder ==
    /\ obj.kind = "FrozenCLIPEmbedder"
    /\ Called("FrozenCLIPEmbedder.freeze", <<>>,
              Eff(FrozenCLIPEmbedder_freeze(obj), Ok(None), <<>>))

EncodeFrozenCLIPEmbedder ==
    /\ obj.kind = "FrozenCLIPEmbedder"
    /\ \E text \in TextBatches :
        Called("FrozenCLIPEmbedder.encode", [text |-> text],
               FrozenCLIPEmbedder_encode(obj, text))

NewFrozenT5Embedder ==
    /\ obj.kind = "none"
    /\ \E dim \in 1..MaxEmbed, device \in Devices, max_length \in Lengths :
        Constructed("FrozenT5Embedder.__init__", <<>>,
                    FrozenT5Embedder_init(dim, device, max_length), <<>>)

FreezeFrozenT5Embedder ==
    /\ obj.kind = "FrozenT5Embedder"
    /\ Called("FrozenT5Embedder.freeze", <<>>,
              Eff(FrozenT5Embedder_freeze(obj), Ok(None), <<>>))

EncodeFrozenT5Embedder ==
    /\ obj.kind = "FrozenT5Embedder"
    /\ \E text \in TextBatches :
        Called("FrozenT5Embedder.encode", [text |-> text],
               FrozenT5Embedder_encode(obj, text))

NewFrozenCLIPTextEmbedder ==
    /\ obj.kind = "none"
    /\ \E dim \in 1..MaxEmbed, device \in Devices, max_length \in Lengths,
          n_repeat \in 1..MaxRepeat, normalize \in BOOLEAN :
        Constructed("FrozenCLIPTextEmbedder.__init__", <<>>,
                    FrozenCLIPTextEmbedder_init(dim, device, max_length, n_repeat, normalize),
                    <<>>)

FreezeFrozenCLIPTextEmbedder ==
    /\ obj.kind = "FrozenCLIPTextEmbedder"
    /\ Called("FrozenCLIPTextEmbedder.freeze", <<>>,
              Eff(FrozenCLIPTextEmbedder_freeze(obj), Ok(None), <<>>))

EncodeFrozenCLIPTextEmbedder ==
    /\ obj.kind = "FrozenCLIPTextEmbedder"
    /\ \E text \in TextBatches :
        Called("FrozenCLIPTextEmbedder.encode", [text |-> text],
               FrozenCLIPTextEmbedder_encode(obj, text))

NewFrozenClipImageEmbedder ==
    /\ obj.kind = "none"
    /\ \E dim \in 1..MaxEmbed, antialias \in BOOLEAN :
        Constructed("FrozenClipImageEmbedder.__init__", <<>>,
                    FrozenClipImageEmbedder_init(dim, antialias), <<>>)

ForwardFrozenClipImageEmbedder ==
    /\ obj.kind = "FrozenClipImageEmbedder"
    /\ \E x \in Images :
        Called("FrozenClipImageEmbedder.forward", [x |-> x],
               FrozenClipImageEmbedder_forward(obj, x))

NewFrozenSDUNet ==
    /\ obj.kind = "none"
    /\ \E config \in {None, Some("config.yaml")}, timesteps \in TimestepLists,
          ckpt \in Checkpoints :
        Called("FrozenSDUNet.__init__", [config |-> config, ckpt |-> ckpt],
               FrozenSDUNet_init(config, timesteps, ckpt))

LoadModelFromConfig ==
    /\ obj.kind = "FrozenSDUNet"
    /\ \E ckpt \in Checkpoints, verbose \in BOOLEAN :
        Called("FrozenSDUNet.load_model_from_config", [ckpt |-> ckpt, verbose |-> verbose],
               FrozenSDUNet_load_model_from_config(obj, ckpt, verbose))

FreezeFrozenSDUNet ==
    /\ obj.kind = "FrozenSDUNet"
    /\ Called("FrozenSDUNet.freeze", <<>>, Eff(FrozenSDUNet_freeze(obj), Ok(None), <<>>))

EncodeFrozenSDUNet ==
    /\ obj.kind = "FrozenSDUNet"
    /\ \E z \in 1..MaxBatch, timestep \in {None} \cup {Some(t) : t \in 0..MaxT} :
        \E e \in FrozenSDUNet_encode(obj, z, "c", timestep) :
            Called("FrozenSDUNet.encode", [z |-> z, timestep |-> timestep], e)

Next ==
    \/ NewTransformerEmbedder
    \/ EncodeTransformerEmbedder
    \/ NewBERTTokenizer
    \/ EncodeBERTTokenizer
    \/ DecodeBERTTokenizer
    \/ NewBERTEmbedder
    \/ EncodeBERTEmbedder
    \/ NewSpatialRescaler
    \/ EncodeSpatialRescaler
    \/ NewFrozenCLIPEmbedder
    \/ FreezeFrozenCLIPEmbedder
    \/ EncodeFrozenCLIPEmbedder
    \/ NewFrozenT5Embedder
    \/ FreezeFrozenT5Embedder
    \/ EncodeFrozenT5Embedder
    \/ NewFrozenCLIPTextEmbedder
    \/ FreezeFrozenCLIPTextEmbedder
    \/ EncodeFrozenCLIPTextEmbedder
    \/ NewFrozenClipImageEmbedder
    \/ ForwardFrozenClipImageEmbedder
    \/ NewFrozenSDUNet
    \/ LoadModelFromConfig
    \/ FreezeFrozenSDUNet
    \/ EncodeFrozenSDUNet

Spec == Init /\ [][Next]_vars

(******************************* claims ************************************)
\* the pretrained module an encoder wraps
Wrapped(o) ==
    IF o.kind \in {"FrozenCLIPEmbedder", "FrozenT5Embedder"} THEN o.transformer ELSE o.model

\* freeze() of the object's class
Freeze(o) ==
    CASE o.kind = "FrozenCLIPEmbedder" -> FrozenCLIPEmbedder_freeze(o)
      [] o.kind = "FrozenT5Embedder" -> FrozenT5Embedder_freeze(o)
      [] o.kind = "FrozenCLIPTextEmbedder" -> FrozenCLIPTextEmbedder_freeze(o)
      [] o.kind = "FrozenSDUNet" -> FrozenSDUNet_freeze(o)

FreezeKinds ==
    {"FrozenCLIPEmbedder", "FrozenT5Embedder", "FrozenCLIPTextEmbedder", "FrozenSDUNet"}

FreezeOps == {k \o ".freeze" : k \in FreezeKinds}

EncodeOps ==
    {"TransformerEmbedder.encode", "BERTTokenizer.encode", "BERTEmbedder.encode",
     "SpatialRescaler.encode", "FrozenCLIPEmbedder.encode", "FrozenT5Embedder.encode",
     "FrozenCLIPTextEmbedder.encode", "FrozenClipImageEmbedder.forward",
     "FrozenSDUNet.encode"}

\* C1 as stated: when the constructor of any of the five pretrained wrappers
\* has returned, every parameter the object owns is non-trainable.
C1_AllFrozenAtConstruction ==
    (op \in {"FrozenCLIPEmbedder.__init__", "FrozenT5Embedder.__init__",
             "FrozenCLIPTextEmbedder.__init__", "FrozenClipImageEmbedder.__init__",
             "FrozenSDUNet.__init__"} /\ ret.ok)
        => AllFrozen(Wrapped(obj))

\* C1 amended: the constructors of FrozenCLIPEmbedder, FrozenT5Embedder and
\* FrozenSDUNet leave every parameter non-trainable; those of
\* FrozenCLIPTextEmbedder and FrozenClipImageEmbedder do not freeze, their
\* parameters are still trainable, as loaded, when the constructor returns.
C1_FrozenAtConstruction ==
    /\ (op \in {"FrozenCLIPEmbedder.__init__", "FrozenT5Embedder.__init__",
                "FrozenSDUNet.__init__"} /\ ret.ok)
           => AllFrozen(Wrapped(obj))
    /\ op \in {"FrozenCLIPTextEmbedder.__init__", "FrozenClipImageEmbedder.__init__"}
           => \A p \in DOMAIN obj.model.requires_grad : obj.model.requires_grad[p]

C1_Witness ==
    /\ op = "FrozenCLIPEmbedder.__init__"
    /\ AllFrozen(obj.transformer)

\* C2: on every class that has freeze(), from any state of the object, freezing
\* twice gives the state freezing once gives: all parameters non-trainable and
\* the wrapped module in evaluation mode; after a freeze() call a further one
\* changes nothing.
C2_FreezeIdempotent ==
    obj.kind \in FreezeKinds =>
        /\ Freeze(Freeze(obj)) = Freeze(obj)
        /\ AllFrozen(Wrapped(Freeze(obj)))
        /\ ~Wrapped(Freeze(obj)).training
        /\ op \in FreezeOps => obj = Freeze(obj)

C2_Witness ==
    /\ op = "FrozenCLIPTextEmbedder.freeze"
    /\ AllFrozen(obj.model)
    /\ ~obj.model.training

\* C3: encode with an explicit timestep t, 0 included, hands q_sample and
\* apply_model a vector of B entries all equal to t, whatever the configured
\* timesteps are.
C3_ExplicitTimestep ==
    (op = "FrozenSDUNet.encode" /\ ~IsNone(arg.timestep) /\ ret.ok) =>
        /\ DOMAIN ret.val.q_sample = 1..arg.z
        /\ DOMAIN ret.val.apply_model = 1..arg.z
        /\ \A i \in 1..arg.z :
            /\ ret.val.q_sample[i] = Get(arg.timestep)
            /\ ret.val.apply_model[i] = Get(arg.timestep)

C3_Witness ==
    /\ op = "FrozenSDUNet.encode"
    /\ arg.timestep = Some(0)
    /\ arg.z = MaxBatch
    /\ obj.timesteps = Some(<<1, 2>>)
    /\ ret.ok
    /\ ret.val.q_sample[MaxBatch] = 0

\* C4: encode without a timestep draws for every batch element a timestep t
\* with timesteps[0] <= t < timesteps[-1] and hands the same vector to q_sample
\* and to apply_model.
C4_SampledTimestep ==
    (op = "FrozenSDUNet.encode" /\ IsNone(arg.timestep) /\ ret.ok) =>
        LET ts == Get(obj.timesteps)
        IN  /\ DOMAIN ret.val.q_sample = 1..arg.z
            /\ \A i \in 1..arg.z :
                /\ ts[1] <= ret.val.q_sample[i]
                /\ ret.val.q_sample[i] < ts[Len(ts)]
            /\ ret.val.apply_model = ret.val.q_sample

C4_Witness ==
    /\ op = "FrozenSDUNet.encode"
    /\ IsNone(arg.timestep)
    /\ ret.ok
    /\ arg.z > 1
    /\ ret.val.q_sample[1] # ret.val.q_sample[2]

RECURSIVE Pow2(_)
Pow2(k) == IF k = 0 THEN 1 ELSE 2 * Pow2(k - 1)

\* C5: the tensor SpatialRescaler.encode returns went through exactly n_stages
\* passes: with n_stages = 0 height and width are the input's; with
\* multiplier 0.5 they are floor(H / 2^k) and floor(W / 2^k); the channel count
\* is out_channels when configured and the input's otherwise.
C5_RescaledShape ==
    (op = "SpatialRescaler.encode" /\ ret.ok) =>
        /\ ret.val[1] = arg.x[1]
        /\ obj.n_stages = 0 => (ret.val[3] = arg.x[3] /\ ret.val[4] = arg.x[4])
        /\ obj.multiplier = <<1, 2>> =>
            /\ ret.val[3] = arg.x[3] \div Pow2(obj.n_stages)
            /\ ret.val[4] = arg.x[4] \div Pow2(obj.n_stages)
        /\ ret.val[2] = IF obj.remap_output
                        THEN Get(obj.channel_mapper).out_channels
                        ELSE arg.x[2]

C5_Witness ==
    /\ op = "SpatialRescaler.encode"
    /\ ret.ok
    /\ obj.n_stages = 2
    /\ obj.multiplier = <<1, 2>>
    /\ obj.remap_output
    /\ arg.x[3] = 5
    /\ ret.val[3] = 1
    /\ ret.val[2] # arg.x[2]

\* C6: BERTEmbedder.encode with use_tokenizer=True returns shape
\* (B, max_seq_len, D) for texts shorter than, as long as and longer than the
\* maximum: its tokenizer gives every row exactly max_length tokens, the ones
\* past the row's own tokens being the padding id.
C6_FixedSequenceLength ==
    (op = "BERTEmbedder.encode" /\ obj.use_tknz_fn) =>
        LET tk   == Get(obj.tknz_fn)
            toks == BERTTokenizer_forward(tk, arg.text).data
        IN  /\ ret.ok
            /\ ret.val.shape =
                   <<Len(arg.text), obj.transformer.max_seq_len, obj.transformer.dim>>
            /\ tk.max_length = obj.transformer.max_seq_len
            /\ Len(toks) = Len(arg.text)
            /\ \A b \in 1..Len(toks) :
                /\ Len(toks[b]) = tk.max_length
                /\ \A i \in 1..Len(toks[b]) :
                    i > Len(arg.text[b]) + MinLength => toks[b][i] = BertPad

C6_Witness ==
    /\ op = "BERTEmbedder.encode"
    /\ obj.use_tknz_fn
    /\ ret.ok
    /\ \E b \in 1..Len(arg.text) : Len(arg.text[b]) + MinLength < obj.transformer.max_seq_len
    /\ \E b \in 1..Len(arg.text) : Len(arg.text[b]) + MinLength > obj.transformer.max_seq_len

\* C7: BERTTokenizer.encode returns the tokens of forward(text) themselves when
\* vq_interface is false and the tuple (None, None, [None, None, tokens]) when
\* it is true.
C7_VqInterface ==
    op = "BERTTokenizer.encode" =>
        LET tokens == BERTTokenizer_forward(obj, arg.text)
        IN  /\ ret.ok
            /\ ~obj.vq_interface => (~ret.val.tuple /\ ret.val.tokens = tokens)
            /\ obj.vq_interface =>
                /\ ret.val.tuple
                /\ ret.val.items = <<None, None, <<None, None, Some(tokens)>>>>

C7_Witness ==
    /\ op = "BERTTokenizer.encode"
    /\ obj.vq_interface
    /\ ret.val.tuple
    /\ Len(arg.text) = MaxBatch

\* C8: the tensor FrozenCLIPTextEmbedder.encode returns has shape
\* (B, n_repeat, D), normalized or not, and each of the n_repeat entries of
\* batch element b is the pooled vector forward gives for b.
C8_RepeatedShape ==
    (op = "FrozenCLIPTextEmbedder.encode" /\ ret.ok) =>
        LET z == FrozenCLIPTextEmbedder_forward(obj, arg.text).val
        IN  /\ Len(ret.val) = Len(arg.text)
            /\ \A b \in 1..Len(ret.val) :
                /\ Len(ret.val[b]) = obj.n_repeat
                /\ \A k \in 1..Len(ret.val[b]) :
                    /\ Len(ret.val[b][k]) = obj.model.dim
                    /\ ret.val[b][k] = z[b]

C8_Witness ==
    /\ op = "FrozenCLIPTextEmbedder.encode"
    /\ ret.ok
    /\ obj.normalize
    /\ obj.n_repeat = 2
    /\ Len(arg.text) = 2
    /\ ret.val[1][2] # ret.val[2][2]

\* the constructor was given a checkpoint it can load whose keys are not the
\* model's
C9_Case ==
    /\ op = "FrozenSDUNet.__init__"
    /\ ~IsNone(arg.config)
    /\ arg.ckpt.file
    /\ ~IsNone(arg.ckpt.state_dict)
    /\ Get(arg.ckpt.state_dict) # ModelKeys

C9_Proceeds ==
    /\ ret.ok
    /\ obj.kind = "FrozenSDUNet"
    /\ obj.model.children = {"model"}
    /\ AllFrozen(obj.model)
    /\ ~obj.model.training

KeysReported == \E i \in 1..Len(out) : out[i].keys # {}

\* C9 as stated: a key mismatch does not fail construction, it is reported,
\* and construction goes on to discard the two sub-modules and to freeze.
C9_MismatchReported == C9_Case => (C9_Proceeds /\ KeysReported)

\* C9 amended: a key mismatch does not fail construction, which goes on to
\* discard the two sub-modules and to freeze, and prints no key report: the
\* constructor loads with verbose=False.  load_model_from_config prints the
\* missing and the unexpected keys exactly when called with verbose=True.
C9_MismatchSilent ==
    /\ C9_Case => (C9_Proceeds /\ ~KeysReported)
    /\ (op = "FrozenSDUNet.load_model_from_config" /\ ret.ok) =>
        LET m == ModelKeys \ Get(arg.ckpt.state_dict)
            u == Get(arg.ckpt.state_dict) \ ModelKeys
        IN  /\ (\E i \in 1..Len(out) : out[i] = Keys(m)) <=> (arg.verbose /\ m # {})
            /\ (\E i \in 1..Len(out) : out[i] = Keys(u)) <=> (arg.verbose /\ u # {})

C9_Witness ==
    /\ C9_Case
    /\ C9_Proceeds
    /\ ModelKeys \ Get(arg.ckpt.state_dict) # {}
    /\ Get(arg.ckpt.state_dict) \ ModelKeys # {}

\* C10: an encode call leaves the object, its configuration and its frozen
\* status as they were, and only freeze() changes the frozen status.
C10_EncodeFrame ==
    [][/\ op' \in EncodeOps => obj' = obj
       /\ (obj.kind \in FreezeKinds /\ Wrapped(obj') # Wrapped(obj)) => op' \in FreezeOps]_vars

C10_Witness ==
    /\ op = "FrozenCLIPEmbedder.encode"
    /\ ret.ok
    /\ AllFrozen(obj.transformer)

====
